---- MODULE Spec2Model ----
(***************************************************************************)
(* A model of src/src/result.ts: the Result type (classes Ok and Err, the  *)
(* constructors ok and err) and Result.fromPromise, together with the part *)
(* of the host Promise semantics that fromPromise and asPromise rely on    *)
(* (then/catch reactions, the microtask queue, Promise.resolve/reject).    *)
(***************************************************************************)
EXTENDS Integers, Sequences, FiniteSets, TLC

VARIABLES
    heap,       \* the Ok and Err instances, in allocation order; a Result is its index
    promises,   \* the Promise objects, in allocation order
    jobs,       \* the microtask queue of promise reaction jobs
    executors,  \* promises whose resolve/reject functions the caller's code holds
    last,       \* the most recent call: operation, receiver, arguments, callbacks run, completion
    convs,      \* every Result.fromPromise call so far: receiver (0: none), input, output
    trace       \* the andThen calls of one chained expression, in order

vars == <<heap, promises, jobs, executors, last, convs, trace>>

-----------------------------------------------------------------------------
(* Bounds of the model *)

MaxVal == 1
MaxObjs == 2
MaxPromises == 3
MaxChain == 3

-----------------------------------------------------------------------------
(* Values *)

Numbers == {[kind |-> "number", n |-> i] : i \in 0..MaxVal}
Strings == {[kind |-> "string", s |-> "boom"]}
Prims == Numbers \cup Strings
Undefined == [kind |-> "undefined"]
Bool(b) == [kind |-> "boolean", b |-> b]
ResultRef(i) == [kind |-> "result", id |-> i]
PromiseRef(i) == [kind |-> "promise", id |-> i]
Values(ps) == Prims \cup {PromiseRef(i) : i \in DOMAIN ps}

IsPromise(v) == v.kind = "promise"

\* The default string conversion that a template literal applies to a value.
String(v) ==
    CASE v.kind = "number" -> ToString(v.n)
      [] v.kind = "string" -> v.s
      [] v.kind = "boolean" -> IF v.b THEN "true" ELSE "false"
      [] v.kind = "undefined" -> "undefined"
      [] v.kind = "promise" -> "[object Promise]"
      [] OTHER -> "[object Object]"

\* new Error(message)
NewError(message) == [kind |-> "Error", message |-> message]

\* Completion of a call: it returns a value or it throws one.
Return(v) == [type |-> "return", value |-> v]
Throw(v) == [type |-> "throw", value |-> v]

-----------------------------------------------------------------------------
(* Callbacks.  A callback handed to map, mapErr, andThen or match is the   *)
(* caller's code: it is modelled by what its invocation does, the Results  *)
(* it constructs (new) and its completion (ret).  Every invocation is      *)
(* logged with the argument it received.                                   *)

OkObj(v) == [_tag |-> "Ok", value |-> v]
ErrObj(e) == [_tag |-> "Err", error |-> e]

ValueFns ==
    {[new |-> <<>>, ret |-> Return(v)] : v \in Prims}
        \cup {[new |-> <<>>, ret |-> Throw(e)] : e \in Strings}

ResultFns(h) ==
    {[new |-> <<OkObj(v)>>, ret |-> Return(ResultRef(Len(h) + 1))] : v \in Prims}
        \cup {[new |-> <<ErrObj(e)>>, ret |-> Return(ResultRef(Len(h) + 1))] : e \in Prims}
        \cup {[new |-> <<>>, ret |-> Return(ResultRef(i))] : i \in DOMAIN h}
        \cup {[new |-> <<>>, ret |-> Throw(e)] : e \in Strings}

Invocation(name, fn, arg) == [fn |-> name, arg |-> arg, ret |-> fn.ret]

\* What a method call leaves behind: the heap, the promises, the callbacks
\* it ran and its completion.
Effect(h, ps, calls, completion) ==
    [heap |-> h, promises |-> ps, calls |-> calls, completion |-> completion]

-----------------------------------------------------------------------------
(* Host promises *)

PromiseObj(state, result) == [state |-> state, result |-> result, reactions |-> <<>>]

\* Promise.resolve(v): a native promise is returned as it is, any other
\* value gives a new promise fulfilled with it.
PromiseResolve(ps, v) ==
    IF IsPromise(v)
    THEN [promises |-> ps, promise |-> v]
    ELSE [promises |-> Append(ps, PromiseObj("fulfilled", v)),
          promise |-> PromiseRef(Len(ps) + 1)]

\* Promise.reject(e): always a new promise, rejected with e.
PromiseReject(ps, e) ==
    [promises |-> Append(ps, PromiseObj("rejected", e)),
     promise |-> PromiseRef(Len(ps) + 1)]

\* A reaction registered by then/catch: its two handlers ("undefined" where
\* none was given) and the derived promise it settles.
Reaction(onFulfilled, onRejected, capability) ==
    [onFulfilled |-> onFulfilled, onRejected |-> onRejected, capability |-> capability]

ReactionJob(reaction, state, argument) ==
    [reaction |-> reaction, state |-> state, argument |-> argument]

\* promise.then(onFulfilled, onRejected): a new pending promise; the reaction
\* waits on a pending promise and is queued at once on a settled one.
PromiseThen(ps, q, p, onFulfilled, onRejected) ==
    LET d == Len(ps) + 1
        reaction == Reaction(onFulfilled, onRejected, d)
        ps1 == Append(ps, PromiseObj("pending", Undefined))
    IN  IF ps[p].state = "pending"
        THEN [promises |-> [ps1 EXCEPT ![p].reactions = Append(@, reaction)],
              jobs |-> q,
              promise |-> PromiseRef(d)]
        ELSE [promises |-> ps1,
              jobs |-> Append(q, ReactionJob(reaction, ps[p].state, ps[p].result)),
              promise |-> PromiseRef(d)]

\* promise.catch(onRejected) is promise.then(undefined, onRejected).
PromiseCatch(ps, q, p, onRejected) == PromiseThen(ps, q, p, "undefined", onRejected)

\* A pending promise is fulfilled or rejected: its reactions become jobs, in
\* the order they were registered.
SettlePromise(ps, q, p, state, result) ==
    [promises |-> [ps EXCEPT ![p] = PromiseObj(state, result)],
     jobs |-> q \o [i \in DOMAIN ps[p].reactions |->
                        ReactionJob(ps[p].reactions[i], state, result)]]

-----------------------------------------------------------------------------
(* Result.fromPromise *)

\* (value) => new Ok(value)
ThenHandler(h, value) ==
    [heap |-> Append(h, OkObj(value)), completion |-> Return(ResultRef(Len(h) + 1))]

\* Faulty variant of CatchHandler: the rejection is thrown again instead of wrapped.
CatchHandler_Rethrows(h, error) == [heap |-> h, completion |-> Throw(error)]

\* (error) => new Err(error)
CatchHandler(h, error) ==
    [heap |-> Append(h, ErrObj(error)), completion |-> Return(ResultRef(Len(h) + 1))]

\* A handler of a reaction, run on the settled promise's result; without a
\* handler the settlement passes through to the derived promise.
RunHandler(h, handler, state, argument) ==
    CASE handler = "then" -> ThenHandler(h, argument)
      [] handler = "catch" -> CatchHandler(h, argument)
      [] OTHER -> [heap |-> h,
                   completion |-> IF state = "fulfilled" THEN Return(argument)
                                  ELSE Throw(argument)]

fromPromise(ps, q, promise) ==
    LET t == PromiseThen(ps, q, promise.id, "then", "undefined")
    IN  PromiseCatch(t.promises, t.jobs, t.promise.id, "catch")

-----------------------------------------------------------------------------
(* class Ok *)

Ok_isOk(h, ps, this) == Effect(h, ps, <<>>, Return(Bool(TRUE)))

Ok_isErr(h, ps, this) == Effect(h, ps, <<>>, Return(Bool(FALSE)))

Ok_unwrap(h, ps, this) == Effect(h, ps, <<>>, Return(h[this].value))

Ok_unwrapOr(h, ps, this, default) == Effect(h, ps, <<>>, Return(h[this].value))

\* Faulty variant of Ok_unwrapErr: a sentinel is returned instead of raising.
Ok_unwrapErr_Sentinel(h, ps, this) == Effect(h, ps, <<>>, Return(Undefined))

Ok_unwrapErr(h, ps, this) ==
    Effect(h, ps, <<>>, Throw(NewError("Called unwrapErr on an Ok value")))

\* Faulty variant of Ok_map: the payload is replaced in the receiver, which is returned.
Ok_map_InPlace(h, ps, this, fn) ==
    LET h1 == h \o fn.new
        calls == <<Invocation("fn", fn, h[this].value)>>
    IN  IF fn.ret.type = "throw"
        THEN Effect(h1, ps, calls, fn.ret)
        ELSE Effect([h1 EXCEPT ![this].value = fn.ret.value], ps, calls,
                    Return(ResultRef(this)))

Ok_map(h, ps, this, fn) ==
    LET h1 == h \o fn.new
        calls == <<Invocation("fn", fn, h[this].value)>>
    IN  IF fn.ret.type = "throw"
        THEN Effect(h1, ps, calls, fn.ret)
        ELSE Effect(Append(h1, OkObj(fn.ret.value)), ps, calls,
                    Return(ResultRef(Len(h1) + 1)))

\* Faulty variant of Ok_mapErr: fn is applied to the success payload.
Ok_mapErr_AppliesFn(h, ps, this, fn) ==
    LET h1 == h \o fn.new
        calls == <<Invocation("fn", fn, h[this].value)>>
    IN  IF fn.ret.type = "throw"
        THEN Effect(h1, ps, calls, fn.ret)
        ELSE Effect(Append(h1, OkObj(fn.ret.value)), ps, calls,
                    Return(ResultRef(Len(h1) + 1)))

Ok_mapErr(h, ps, this, fn) ==
    Effect(Append(h, OkObj(h[this].value)), ps, <<>>, Return(ResultRef(Len(h) + 1)))

Ok_andThen(h, ps, this, fn) ==
    Effect(h \o fn.new, ps, <<Invocation("fn", fn, h[this].value)>>, fn.ret)

Ok_match(h, ps, this, patterns) ==
    Effect(h \o patterns.ok.new, ps,
           <<Invocation("ok", patterns.ok, h[this].value)>>, patterns.ok.ret)

Ok_asPromise(h, ps, this) ==
    LET p == PromiseResolve(ps, h[this].value)
    IN  Effect(h, p.promises, <<>>, Return(p.promise))

-----------------------------------------------------------------------------
(* class Err *)

Err_isOk(h, ps, this) == Effect(h, ps, <<>>, Return(Bool(FALSE)))

Err_isErr(h, ps, this) == Effect(h, ps, <<>>, Return(Bool(TRUE)))

Err_unwrap(h, ps, this) ==
    Effect(h, ps, <<>>,
           Throw(NewError("Called unwrap on an Err value: " \o String(h[this].error))))

\* Faulty variant of Err_unwrapOr: the stored error is returned, not the default.
Err_unwrapOr_ReturnsError(h, ps, this, defaultValue) ==
    Effect(h, ps, <<>>, Return(h[this].error))

Err_unwrapOr(h, ps, this, defaultValue) == Effect(h, ps, <<>>, Return(defaultValue))

Err_unwrapErr(h, ps, this) == Effect(h, ps, <<>>, Return(h[this].error))

\* Faulty variant of Err_map: fn is applied to the error.
Err_map_AppliesFn(h, ps, this, fn) ==
    LET h1 == h \o fn.new
        calls == <<Invocation("fn", fn, h[this].error)>>
    IN  IF fn.ret.type = "throw"
        THEN Effect(h1, ps, calls, fn.ret)
        ELSE Effect(Append(h1, ErrObj(fn.ret.value)), ps, calls,
                    Return(ResultRef(Len(h1) + 1)))

Err_map(h, ps, this, fn) ==
    Effect(Append(h, ErrObj(h[this].error)), ps, <<>>, Return(ResultRef(Len(h) + 1)))

Err_mapErr(h, ps, this, fn) ==
    LET h1 == h \o fn.new
        calls == <<Invocation("fn", fn, h[this].error)>>
    IN  IF fn.ret.type = "throw"
        THEN Effect(h1, ps, calls, fn.ret)
        ELSE Effect(Append(h1, ErrObj(fn.ret.value)), ps, calls,
                    Return(ResultRef(Len(h1) + 1)))

\* Faulty variant of Err_andThen: no short circuit, fn is invoked with the error.
Err_andThen_Invokes(h, ps, this, fn) ==
    Effect(h \o fn.new, ps, <<Invocation("fn", fn, h[this].error)>>, fn.ret)

Err_andThen(h, ps, this, fn) ==
    Effect(Append(h, ErrObj(h[this].error)), ps, <<>>, Return(ResultRef(Len(h) + 1)))

\* Faulty variant of Err_match: both handlers run, the err handler's result is returned.
Err_match_BothHandlers(h, ps, this, patterns) ==
    Effect(h \o patterns.ok.new \o patterns.err.new, ps,
           <<Invocation("ok", patterns.ok, h[this].error),
             Invocation("err", patterns.err, h[this].error)>>,
           patterns.err.ret)

Err_match(h, ps, this, patterns) ==
    Effect(h \o patterns.err.new, ps,
           <<Invocation("err", patterns.err, h[this].error)>>, patterns.err.ret)

\* Faulty variant of Err_asPromise: the error is resolved, not rejected.
Err_asPromise_Resolves(h, ps, this) ==
    LET p == PromiseResolve(ps, h[this].error)
    IN  Effect(h, p.promises, <<>>, Return(p.promise))

Err_asPromise(h, ps, this) ==
    LET p == PromiseReject(ps, h[this].error)
    IN  Effect(h, p.promises, <<>>, Return(p.promise))

-----------------------------------------------------------------------------
(* The constructors *)

ok(h, ps, value) ==
    Effect(Append(h, OkObj(value)), ps, <<>>, Return(ResultRef(Len(h) + 1)))

err(h, ps, error) ==
    Effect(Append(h, ErrObj(error)), ps, <<>>, Return(ResultRef(Len(h) + 1)))

-----------------------------------------------------------------------------
(* Method dispatch: an instance of class Ok runs Ok's method, an instance  *)
(* of class Err runs Err's.                                                *)

IsOkInstance(h, this) == h[this]._tag = "Ok"

isOk(h, ps, this) ==
    IF IsOkInstance(h, this) THEN Ok_isOk(h, ps, this) ELSE Err_isOk(h, ps, this)
isErr(h, ps, this) ==
    IF IsOkInstance(h, this) THEN Ok_isErr(h, ps, this) ELSE Err_isErr(h, ps, this)
unwrap(h, ps, this) ==
    IF IsOkInstance(h, this) THEN Ok_unwrap(h, ps, this) ELSE Err_unwrap(h, ps, this)
unwrapOr(h, ps, this, d) ==
    IF IsOkInstance(h, this) THEN Ok_unwrapOr(h, ps, this, d) ELSE Err_unwrapOr(h, ps, this, d)
unwrapErr(h, ps, this) ==
    IF IsOkInstance(h, this) THEN Ok_unwrapErr(h, ps, this) ELSE Err_unwrapErr(h, ps, this)
map(h, ps, this, fn) ==
    IF IsOkInstance(h, this) THEN Ok_map(h, ps, this, fn) ELSE Err_map(h, ps, this, fn)
mapErr(h, ps, this, fn) ==
    IF IsOkInstance(h, this) THEN Ok_mapErr(h, ps, this, fn) ELSE Err_mapErr(h, ps, this, fn)
andThen(h, ps, this, fn) ==
    IF IsOkInstance(h, this) THEN Ok_andThen(h, ps, this, fn) ELSE Err_andThen(h, ps, this, fn)
match(h, ps, this, patterns) ==
    IF IsOkInstance(h, this) THEN Ok_match(h, ps, this, patterns)
    ELSE Err_match(h, ps, this, patterns)
asPromise(h, ps, this) ==
    IF IsOkInstance(h, this) THEN Ok_asPromise(h, ps, this) ELSE Err_asPromise(h, ps, this)

-----------------------------------------------------------------------------
(* The synchronous operations as actions *)

NoCall == [op |-> "none", this |-> 0, args |-> <<>>, calls |-> <<>>,
           completion |-> Return(Undefined)]

Init ==
    /\ heap = <<>>
    /\ promises = <<>>
    /\ jobs = <<>>
    /\ executors = {}
    /\ last = NoCall
    /\ convs = <<>>
    /\ trace = <<>>

Fits(eff) == Len(eff.heap) + Len(eff.promises) <= MaxObjs

\* A synchronous call: its effect becomes the state and the call is recorded.
Call(op, this, args, eff) ==
    /\ Fits(eff)
    /\ heap' = eff.heap
    /\ promises' = eff.promises
    /\ last' = [op |-> op, this |-> this, args |-> args, calls |-> eff.calls,
                completion |-> eff.completion]
    /\ UNCHANGED <<jobs, executors, convs, trace>>

Results == DOMAIN heap

MakeOk == \E v \in Values(promises) : Call("ok", 0, <<v>>, ok(heap, promises, v))
MakeErr == \E e \in Values(promises) : Call("err", 0, <<e>>, err(heap, promises, e))
IsOk == \E r \in Results : Call("isOk", r, <<>>, isOk(heap, promises, r))
IsErr == \E r \in Results : Call("isErr", r, <<>>, isErr(heap, promises, r))
Unwrap == \E r \in Results : Call("unwrap", r, <<>>, unwrap(heap, promises, r))
UnwrapOr ==
    \E r \in Results, d \in Prims :
        Call("unwrapOr", r, <<d>>, unwrapOr(heap, promises, r, d))
UnwrapErr == \E r \in Results : Call("unwrapErr", r, <<>>, unwrapErr(heap, promises, r))
Map ==
    \E r \in Results, fn \in ValueFns : Call("map", r, <<fn>>, map(heap, promises, r, fn))
MapErr ==
    \E r \in Results, fn \in ValueFns :
        Call("mapErr", r, <<fn>>, mapErr(heap, promises, r, fn))
AndThen ==
    \E r \in Results, fn \in ResultFns(heap) :
        Call("andThen", r, <<fn>>, andThen(heap, promises, r, fn))
Match ==
    \E r \in Results, f \in ValueFns, g \in ValueFns :
        LET patterns == [ok |-> f, err |-> g]
        IN  Call("match", r, <<patterns>>, match(heap, promises, r, patterns))
AsPromise == \E r \in Results : Call("asPromise", r, <<>>, asPromise(heap, promises, r))

Next ==
    \/ MakeOk
    \/ MakeErr
    \/ IsOk
    \/ IsErr
    \/ Unwrap
    \/ UnwrapOr
    \/ UnwrapErr
    \/ Map
    \/ MapErr
    \/ AndThen
    \/ Match
    \/ AsPromise

Spec == Init /\ [][Next]_vars

-----------------------------------------------------------------------------
(* A chained expression r.andThen(f1).andThen(f2)...: each step's receiver *)
(* is the Result the step before it returned; a step that throws ends it.  *)

\* The Result the expression starts from: ok(v) or err(e).
Start == heap = <<>> /\ (MakeOk \/ MakeErr)

ChainReceivers ==
    IF trace = <<>> THEN Results
    ELSE IF trace[Len(trace)].completion.type = "return"
         THEN {trace[Len(trace)].completion.value.id}
         ELSE {}

ChainStep ==
    /\ Len(trace) < MaxChain
    /\ \E r \in ChainReceivers, fn \in ResultFns(heap) :
        LET eff == andThen(heap, promises, r, fn)
            call == [op |-> "andThen", this |-> r, args |-> <<fn>>, calls |-> eff.calls,
                     completion |-> eff.completion]
        IN  /\ heap' = eff.heap
            /\ last' = call
            /\ trace' = Append(trace, call)
            /\ UNCHANGED <<promises, jobs, executors, convs>>

NextChain == Start \/ ChainStep

SpecChain == Init /\ [][NextChain]_vars

-----------------------------------------------------------------------------
(* Promises: the caller creates and settles promises, converts them with   *)
(* Result.fromPromise, and the host runs the queued reaction jobs.         *)

\* new Promise(executor): the caller keeps the resolving functions.
NewPromise ==
    /\ Len(promises) < MaxPromises
    /\ promises' = Append(promises, PromiseObj("pending", Undefined))
    /\ executors' = executors \cup {Len(promises) + 1}
    /\ UNCHANGED <<heap, jobs, last, convs, trace>>

\* The caller fulfils or rejects one of its pending promises.
Settle ==
    \E p \in executors, state \in {"fulfilled", "rejected"}, v \in Prims :
        /\ promises[p].state = "pending"
        /\ LET s == SettlePromise(promises, jobs, p, state, v)
           IN  /\ promises' = s.promises
               /\ jobs' = s.jobs
        /\ UNCHANGED <<heap, executors, last, convs, trace>>

\* Result.fromPromise(p)
FromPromise ==
    \E p \in DOMAIN promises :
        LET c == fromPromise(promises, jobs, PromiseRef(p))
        IN  /\ Len(c.promises) <= MaxPromises
            /\ promises' = c.promises
            /\ jobs' = c.jobs
            /\ convs' = Append(convs, [this |-> 0, input |-> p, output |-> c.promise.id])
            /\ last' = [op |-> "fromPromise", this |-> 0, args |-> <<PromiseRef(p)>>,
                        calls |-> <<>>, completion |-> Return(c.promise)]
            /\ UNCHANGED <<heap, executors, trace>>

\* Result.fromPromise(r.asPromise())
RoundTrip ==
    \E r \in Results :
        LET a == asPromise(heap, promises, r)
            c == fromPromise(a.promises, jobs, a.completion.value)
        IN  /\ Len(c.promises) <= MaxPromises
            /\ promises' = c.promises
            /\ jobs' = c.jobs
            /\ convs' = Append(convs, [this |-> r, input |-> a.completion.value.id,
                                       output |-> c.promise.id])
            /\ last' = [op |-> "fromPromise", this |-> 0, args |-> <<a.completion.value>>,
                        calls |-> <<>>, completion |-> Return(c.promise)]
            /\ UNCHANGED <<heap, executors, trace>>

\* The host runs the oldest reaction job: the handler's completion settles
\* the derived promise.  Every value that reaches a derived promise here is
\* a plain value or an Ok/Err instance, neither of which has a then method,
\* so resolving is fulfilling.
RunJob ==
    /\ jobs # <<>>
    /\ LET job == Head(jobs)
           handler == IF job.state = "fulfilled" THEN job.reaction.onFulfilled
                      ELSE job.reaction.onRejected
           run == RunHandler(heap, handler, job.state, job.argument)
           s == SettlePromise(promises, Tail(jobs), job.reaction.capability,
                              IF run.completion.type = "return" THEN "fulfilled"
                              ELSE "rejected",
                              run.completion.value)
       IN  /\ heap' = run.heap
           /\ promises' = s.promises
           /\ jobs' = s.jobs
    /\ UNCHANGED <<executors, last, convs, trace>>

NextAsync ==
    \/ Start
    \/ NewPromise
    \/ Settle
    \/ FromPromise
    \/ RoundTrip
    \/ RunJob

SpecAsync == Init /\ [][NextAsync]_vars

\* The host's event loop always drains the microtask queue.
SpecAsyncFair == SpecAsync /\ WF_vars(RunJob)

-----------------------------------------------------------------------------
(* Properties of the synchronous operations (Spec).  After a call the      *)
(* receiver is heap[last.this]; no operation writes to an existing         *)
(* instance (C10), so this is also the receiver as the call found it.      *)

This == heap[last.this]
OnOk(op) == last.op = op /\ This._tag = "Ok"
OnErr(op) == last.op = op /\ This._tag = "Err"
Returned == last.completion.type = "return"
Raised == last.completion.type = "throw"
\* The Result a call returned.
Returned_Result == heap[last.completion.value.id]
\* A call that returned an instance allocated by the call itself.
ReturnedNew ==
    /\ Returned
    /\ last.completion.value.kind = "result"
    /\ last.completion.value.id = Len(heap)
    /\ last.completion.value.id # last.this

\* s occurs in m
Includes(m, s) == \E i \in 1..(Len(m) - Len(s) + 1) : SubSeq(m, i, i + Len(s) - 1) = s

\* C2: extracting the wrong variant raises: unwrap() on an Err and
\* unwrapErr() on an Ok complete by throwing, never by returning a value.
C2_WrongVariantRaises ==
    /\ OnErr("unwrap") => Raised
    /\ OnOk("unwrapErr") => Raised

C2_Witness == OnOk("unwrapErr") /\ Raised /\ This.value \in Numbers

\* C3: the failure raised by a mismatched extraction is an Error whose
\* description includes the content of the mismatched variant: the error e for
\* err(e).unwrap(), the payload v for ok(v).unwrapErr().
C3_DescriptionIncludesContent ==
    /\ OnErr("unwrap") =>
        /\ Raised
        /\ last.completion.value.kind = "Error"
        /\ Includes(last.completion.value.message, String(This.error))
    /\ OnOk("unwrapErr") =>
        /\ Raised
        /\ last.completion.value.kind = "Error"
        /\ Includes(last.completion.value.message, String(This.value))

\* C4: extraction on the matching variant returns the stored payload
\* unchanged, and unwrapOr returns on both variants: the payload on an Ok,
\* the default on an Err.
C4_MatchingExtraction ==
    /\ OnOk("unwrap") => last.completion = Return(This.value)
    /\ OnOk("unwrapOr") => last.completion = Return(This.value)
    /\ OnErr("unwrapErr") => last.completion = Return(This.error)
    /\ OnErr("unwrapOr") => last.completion = Return(last.args[1])

C4_Witness == OnErr("unwrapOr") /\ Returned /\ last.args[1] # This.error

\* C6: match invokes exactly one handler, exactly once, with the payload of
\* the active variant, and completes as that handler did: the ok handler on
\* an Ok, the err handler on an Err.
C6_MatchExactlyOneHandler ==
    /\ OnOk("match") =>
        /\ last.calls = <<Invocation("ok", last.args[1].ok, This.value)>>
        /\ last.completion = last.args[1].ok.ret
    /\ OnErr("match") =>
        /\ last.calls = <<Invocation("err", last.args[1].err, This.error)>>
        /\ last.completion = last.args[1].err.ret

C6_Witness ==
    /\ OnErr("match")
    /\ Returned
    /\ last.args[1].ok.ret # last.args[1].err.ret
    /\ Len(last.calls) = 1

\* C7: map transforms only the success payload: on an Ok, fn is invoked
\* exactly once with the payload and the result is a new Ok holding what fn
\* returned (a throw of fn is the call's own); on an Err, fn is not invoked
\* and the result is an Err holding the same error.
C7_MapOnlySuccess ==
    /\ OnOk("map") =>
        /\ last.calls = <<Invocation("fn", last.args[1], This.value)>>
        /\ last.args[1].ret.type = "return" =>
            /\ ReturnedNew
            /\ Returned_Result = OkObj(last.args[1].ret.value)
        /\ last.args[1].ret.type = "throw" => last.completion = last.args[1].ret
    /\ OnErr("map") =>
        /\ last.calls = <<>>
        /\ ReturnedNew
        /\ Returned_Result = ErrObj(This.error)

C7_Witness ==
    /\ OnOk("map")
    /\ ReturnedNew
    /\ Returned_Result.value # This.value

\* C8: mapErr transforms only the failure payload: on an Err, fn is invoked
\* exactly once with the error and the result is a new Err holding what fn
\* returned (a throw of fn is the call's own); on an Ok, fn is not invoked
\* and the result is an Ok holding the same payload.
C8_MapErrOnlyFailure ==
    /\ OnErr("mapErr") =>
        /\ last.calls = <<Invocation("fn", last.args[1], This.error)>>
        /\ last.args[1].ret.type = "return" =>
            /\ ReturnedNew
            /\ Returned_Result = ErrObj(last.args[1].ret.value)
        /\ last.args[1].ret.type = "throw" => last.completion = last.args[1].ret
    /\ OnOk("mapErr") =>
        /\ last.calls = <<>>
        /\ ReturnedNew
        /\ Returned_Result = OkObj(This.value)

C8_Witness ==
    /\ OnErr("mapErr")
    /\ ReturnedNew
    /\ Returned_Result.error # This.error

\* C10, the state part: every Result answers exactly one of isOk() and
\* isErr() with true; what ok() returns answers isOk(), what err() returns
\* answers isErr().
Answer(eff) == eff.completion.value.b

C10_OneVariant ==
    /\ \A r \in Results :
        /\ Answer(isOk(heap, promises, r)) # Answer(isErr(heap, promises, r))
        /\ isOk(heap, promises, r).heap = heap
        /\ isErr(heap, promises, r).heap = heap
    /\ last.op = "ok" => Answer(isOk(heap, promises, last.completion.value.id))
    /\ last.op = "err" => Answer(isErr(heap, promises, last.completion.value.id))

\* C10, the step part: no call changes the variant or the payload of a
\* Result that exists; transformations allocate.
C10_Unchanged ==
    \A r \in DOMAIN heap : r \in DOMAIN heap' /\ heap'[r] = heap[r]

\* C10: every Result is exactly one variant, fixed at construction: in every
\* state exactly one of isOk() and isErr() holds of it, and no step of isOk,
\* isErr, unwrap, unwrapOr, unwrapErr, map, mapErr, andThen, match or
\* asPromise changes the variant or the payload of an existing Result.
C10_VariantFixed == []C10_OneVariant /\ [][C10_Unchanged]_vars

C10_Witness ==
    /\ OnOk("map")
    /\ ReturnedNew
    /\ Returned_Result.value # This.value
    /\ Len(heap) = MaxObjs

-----------------------------------------------------------------------------
(* The chained expression (SpecChain) *)

\* The Result that step i of the chain returned.
Yielded(i) == heap[trace[i].completion.value.id]

\* One andThen call: on an Ok, fn is invoked exactly once with the payload
\* and the call completes as fn did, returning the very Result fn returned;
\* on an Err, fn is not invoked and an Err with the same error is returned.
BindLaw(t) ==
    IF heap[t.this]._tag = "Ok"
    THEN /\ t.calls = <<Invocation("fn", t.args[1], heap[t.this].value)>>
         /\ t.completion = t.args[1].ret
    ELSE /\ t.calls = <<>>
         /\ t.completion.type = "return"
         /\ t.completion.value.kind = "result"
         /\ heap[t.completion.value.id] = ErrObj(heap[t.this].error)

\* Once the chain holds an Err (its head, or what a step returned), no later
\* step invokes its function and every later step returns an Err with that
\* error, the last one included.
ShortCircuit ==
    \A i \in DOMAIN trace, j \in DOMAIN trace :
        /\ heap[trace[1].this]._tag = "Err" =>
            /\ trace[j].calls = <<>>
            /\ trace[j].completion.type = "return"
            /\ Yielded(j) = ErrObj(heap[trace[1].this].error)
        /\ (i < j /\ Yielded(i)._tag = "Err") =>
            /\ trace[j].calls = <<>>
            /\ trace[j].completion.type = "return"
            /\ Yielded(j) = Yielded(i)

\* C5: andThen is a short-circuiting bind: ok(v).andThen(f) invokes f exactly
\* once with v and is the Result f returned; err(e).andThen(f) is an Err with
\* error e and f is not invoked; in a chain of andThen steps, once a step
\* yields an Err no later function is invoked and the final result carries
\* that first error.
C5_AndThenShortCircuits ==
    /\ \A i \in DOMAIN trace : BindLaw(trace[i])
    /\ \A i \in DOMAIN trace : i > 1 => trace[i].this = trace[i - 1].completion.value.id
    /\ ShortCircuit

C5_Witness ==
    /\ Len(trace) = MaxChain
    /\ heap[trace[1].this]._tag = "Ok"
    /\ Len(trace[1].calls) = 1
    /\ Yielded(1)._tag = "Err"
    /\ Yielded(1).error # heap[trace[1].this].value
    /\ trace[MaxChain].calls = <<>>
    /\ Yielded(MaxChain) = Yielded(1)

-----------------------------------------------------------------------------
(* Properties of the conversions (SpecAsyncFair) *)

Input(c) == promises[c.input]
Output(c) == promises[c.output]
Settled(p) == p.state # "pending"

\* The returned promise is pending while the input is, is never rejected,
\* and is fulfilled only with an Ok of the input's value or an Err of the
\* input's rejection.
Mirrors(c) ==
    /\ ~Settled(Input(c)) => ~Settled(Output(c))
    /\ Output(c).state # "rejected"
    /\ Output(c).state = "fulfilled" =>
        /\ Output(c).result.kind = "result"
        /\ Input(c).state = "fulfilled" => heap[Output(c).result.id] = OkObj(Input(c).result)
        /\ Input(c).state = "rejected" => heap[Output(c).result.id] = ErrObj(Input(c).result)

C1_Mirrors == \A k \in DOMAIN convs : Mirrors(convs[k])

C1_SettlesOnce ==
    \A k \in DOMAIN convs :
        Settled(Output(convs[k])) => promises'[convs[k].output] = Output(convs[k])

C1_Settles ==
    \A k \in 1..MaxPromises :
        (k \in DOMAIN convs /\ Settled(Input(convs[k])))
            ~> (k \in DOMAIN convs /\ Output(convs[k]).state = "fulfilled")

\* C1: Result.fromPromise(input) mirrors the settlement of input and never
\* rejects: the returned promise is pending while input is pending; once
\* input fulfils with v it fulfils with an Ok of v, once input rejects with e
\* it fulfils with an Err of e; it is never rejected and settles only once.
C1_FromPromiseMirrorsInput == []C1_Mirrors /\ [][C1_SettlesOnce]_vars /\ C1_Settles

C1_Witness ==
    \E k \in DOMAIN convs :
        /\ convs[k].this = 0
        /\ Input(convs[k]).state = "rejected"
        /\ Output(convs[k]).state = "fulfilled"
        /\ heap[Output(convs[k]).result.id] = ErrObj(Input(convs[k]).result)

\* The round trips made so far.
RoundTrips == {k \in DOMAIN convs : convs[k].this # 0}
Receiver(c) == heap[c.this]
\* An Ok whose payload is a promise: Promise.resolve hands that promise back.
WrapsPromise(r) == r._tag = "Ok" /\ IsPromise(r.value)

\* r.asPromise() is settled with r's payload, fulfilled for an Ok and
\* rejected for an Err, and fromPromise of it is fulfilled only with a Result
\* of r's variant and payload.
Inverse(c) ==
    /\ Receiver(c)._tag = "Ok" =>
        Input(c).state = "fulfilled" /\ Input(c).result = Receiver(c).value
    /\ Receiver(c)._tag = "Err" =>
        Input(c).state = "rejected" /\ Input(c).result = Receiver(c).error
    /\ Output(c).state # "rejected"
    /\ Output(c).state = "fulfilled" =>
        /\ Output(c).result.kind = "result"
        /\ heap[Output(c).result.id] = Receiver(c)

\* What the statement excludes at any moment, whatever is still pending:
\* ok(v).asPromise() is not rejected and is fulfilled with nothing but v,
\* err(e).asPromise() is not fulfilled and is rejected with nothing but e,
\* and fromPromise of it is fulfilled with nothing but a Result of r's
\* variant and payload.
NeverOtherwise(c) ==
    /\ Receiver(c)._tag = "Ok" =>
        /\ Input(c).state # "rejected"
        /\ Input(c).state = "fulfilled" => Input(c).result = Receiver(c).value
    /\ Receiver(c)._tag = "Err" =>
        /\ Input(c).state # "fulfilled"
        /\ Input(c).state = "rejected" => Input(c).result = Receiver(c).error
    /\ Output(c).state # "rejected"
    /\ Output(c).state = "fulfilled" =>
        /\ Output(c).result.kind = "result"
        /\ heap[Output(c).result.id] = Receiver(c)

\* C9 as stated: for every Result r, ok(v).asPromise() fulfils with v,
\* err(e).asPromise() rejects with e, and Result.fromPromise(r.asPromise())
\* fulfils with a Result of r's variant and payload.
C9_InverseForEveryResult == \A k \in RoundTrips : NeverOtherwise(convs[k])

C9_InverseUnlessPromise ==
    \A k \in RoundTrips : ~WrapsPromise(Receiver(convs[k])) => Inverse(convs[k])

C9_Fulfils ==
    \A k \in 1..MaxPromises :
        (k \in RoundTrips /\ ~WrapsPromise(Receiver(convs[k])))
            ~> (k \in RoundTrips /\ Output(convs[k]).state = "fulfilled")

\* C9, amended: for every Result r other than an Ok whose payload is a
\* promise (a thenable), ok(v).asPromise() is fulfilled with v,
\* err(e).asPromise() is rejected with e, and
\* Result.fromPromise(r.asPromise()) fulfils with a Result of r's variant and
\* payload.
C9_AsPromiseInverse == []C9_InverseUnlessPromise /\ C9_Fulfils

C9_Witness ==
    \E k \in RoundTrips :
        /\ Receiver(convs[k])._tag = "Err"
        /\ Input(convs[k]).state = "rejected"
        /\ Output(convs[k]).state = "fulfilled"
        /\ heap[Output(convs[k]).result.id] = Receiver(convs[k])
        /\ Output(convs[k]).result.id # convs[k].this

====
